---- MODULE Spec2Model ----
(***************************************************************************)
(* The streaming state-reconciliation client of the DriftGuard dashboard:  *)
(* the useWebSocket hook (dashboard/src/hooks/useWebSocket.ts).            *)
(*                                                                         *)
(* The hook owns two refs (wsRef, reconnectTimeoutRef), four pieces of     *)
(* React state (state, agentMetrics, pheromoneHistory, tradeHistory) and   *)
(* the callbacks connect, disconnect, setAllocation and reset.  The        *)
(* browser's WebSocket objects and timers are the environment: a socket    *)
(* has a readyState and dispatches open, error, close and message events   *)
(* to the handlers connect() installed on it.                              *)
(*                                                                         *)
(* Every callback runs to completion on the one event loop, so each is one *)
(* step.  The updaters handed to setState are applied in the order of the  *)
(* calls, so a step shows the state they produce.  readyState changes in   *)
(* the same task that dispatches the open or close event.                  *)
(***************************************************************************)
EXTENDS Integers, Sequences, FiniteSets, TLC

\* ------------------------------------------------------------------ bounds
\* WebSocket objects that exist at once (a closed socket that no reference
\* reaches any more is dropped from the model and its slot is reused).
MaxSockets == 2
\* Reconnect timers pending at once (an id is reused once its timer is gone).
MaxTimers == 2
\* Calls of the manual reconnect() in one run of the retry-loop specification.
MaxManual == 1
\* Inbound frames delivered in one run of the store specification.
MaxFrames == 2
\* Inbound frames delivered in one run of the history specification.
MaxHistoryFrames == 22
\* Inbound frames delivered in one run of the event-log specification.
MaxEventFrames == 52
\* Frames of a scripted stream that are chosen freely; the stream then repeats.
FreePrefix == 2
\* Command invocations recorded in one run of the command specification.
MaxCalls == 2
MaxPoints == 3
MaxLogged == 3

\* ------------------------------------------------------- program constants
\* window.setTimeout(connect, 2000)
ReconnectDelay == 2000
\* [...history.slice(-19), p.intensity]
HistoryKeep == 19
\* [newEvent, ...prev.events].slice(0, 50)
EventCap == 50
width == 100
height == 32
max == 1
size == 140
strokeWidth == 8

SocketIds == 1..MaxSockets
TimerIds == 1..MaxTimers

VARIABLES
    phase,                \* "init" | "mounted" | "unmounted": the hook's effect
    sockets,              \* SocketIds -> readyState, "NONE" for no such object
    origin,               \* SocketIds -> which call of connect() made the socket
    errored,              \* sockets whose error event was dispatched, close pending
    wsRef,                \* wsRef.current: 0 for null, else a socket
    reconnectTimeoutRef,  \* reconnectTimeoutRef.current: 0 for null, else a timer id
    timers,               \* pending timers: records [id, delay]
    connected,            \* state.connected
    pheromones,           \* state.pheromones
    portfolio,            \* state.portfolio: <<>> for null, else <<snapshot>>
    events,               \* state.events
    agentMetrics,
    pheromoneHistory,     \* the Map: a function whose domain is the Map's keys
    tradeHistory,
    uuidCount,            \* ids crypto.randomUUID() has handed out
    clock,                \* the wall clock new Date() reads
    sent,                 \* frames handed to the network by send(), in order
    uncaught,             \* an exception escaped a callback of the hook
    delivered,            \* history: the message events dispatched, in order
    calls,                \* history: the command invocations, in order
    manualCalls,          \* history: how often reconnect() was called (counted to MaxManual)
    backendAccepts,       \* environment: the backend no longer refuses or drops
    args,                 \* the props of the component being rendered
    result,               \* what the component computed from them
    local                 \* the component's own useState values

connVars == <<phase, sockets, origin, errored, wsRef, reconnectTimeoutRef, timers,
              connected, manualCalls, backendAccepts>>
storeVars == <<pheromones, portfolio, events, agentMetrics, pheromoneHistory,
               tradeHistory>>
msgVars == <<uuidCount, clock, delivered>>
cmdVars == <<sent, uncaught, calls>>
viewVars == <<args, result, local>>
vars == <<connVars, storeVars, msgVars, cmdVars, viewVars>>

Min(S) == CHOOSE x \in S : \A y \in S : x <= y

\* ----------------------------------------------------------- construction
\* No component has been rendered.
NotRendered == [done |-> FALSE]

\* A component that holds no useState of its own.
Stateless == [stateless |-> TRUE]

\* useState / useRef initial values (useWebSocket.ts 62-74).
InitHook ==
    /\ phase = "init"
    /\ sockets = [s \in SocketIds |-> "NONE"]
    /\ origin = [s \in SocketIds |-> "none"]
    /\ errored = {}
    /\ wsRef = 0
    /\ reconnectTimeoutRef = 0
    /\ timers = {}
    /\ connected = FALSE
    /\ pheromones = <<>>
    /\ portfolio = <<>>
    /\ events = <<>>
    /\ agentMetrics = <<>>
    /\ pheromoneHistory = <<>>
    /\ tradeHistory = <<>>
    /\ uuidCount = 0
    /\ clock = 0
    /\ sent = <<>>
    /\ uncaught = FALSE
    /\ delivered = <<>>
    /\ calls = <<>>
    /\ manualCalls = 0
    /\ backendAccepts = FALSE

Init ==
    /\ InitHook
    /\ args = [component |-> "none"]
    /\ result = NotRendered
    /\ local = Stateless

\* ------------------------------------------------------ connection manager
FreeSockets == {s \in SocketIds : sockets[s] = "NONE"}
FreeTimers == {t \in TimerIds : \A r \in timers : r.id # t}

\* wsRef.current?.readyState === WebSocket.OPEN
CurrentOpen == wsRef # 0 /\ sockets[wsRef] = "OPEN"

\* connect(): returns at once if the current socket is OPEN; otherwise makes a
\* new WebSocket (readyState CONNECTING), stores it in wsRef and installs the
\* handlers.  The socket wsRef pointed to is not closed; if it was CLOSED
\* already nothing reaches it any more, it leaves the model and its slot is
\* free for the new socket.
connect(by) ==
    IF CurrentOpen
    THEN UNCHANGED <<sockets, origin, wsRef>>
    ELSE LET dropped == IF wsRef # 0 /\ sockets[wsRef] = "CLOSED" THEN {wsRef} ELSE {}
         IN  /\ FreeSockets \cup dropped # {}
             /\ LET ws == Min(FreeSockets \cup dropped) IN
                /\ sockets' = [s \in SocketIds |->
                                  IF s = ws THEN "CONNECTING"
                                  ELSE IF s \in dropped THEN "NONE"
                                  ELSE sockets[s]]
                /\ origin' = [s \in SocketIds |->
                                  IF s = ws THEN by
                                  ELSE IF s \in dropped THEN "none"
                                  ELSE origin[s]]
                /\ wsRef' = ws

\* disconnect(): clearTimeout on the timer the ref names (a no-op for an id
\* whose timer already ran), then close() on the current socket: CONNECTING
\* or OPEN becomes CLOSING, the close event follows later; CLOSING or CLOSED
\* is left alone.  Neither ref is reset.
disconnect ==
    /\ timers' = IF reconnectTimeoutRef # 0
                 THEN {r \in timers : r.id # reconnectTimeoutRef}
                 ELSE timers
    /\ sockets' = IF wsRef # 0 /\ sockets[wsRef] \in {"CONNECTING", "OPEN"}
                  THEN [sockets EXCEPT ![wsRef] = "CLOSING"]
                  ELSE sockets
    /\ UNCHANGED <<origin, wsRef, reconnectTimeoutRef>>

\* useEffect(() => { connect(); return () => disconnect() }): the effect.
Mount ==
    /\ phase = "init"
    /\ phase' = "mounted"
    /\ connect("effect")
    /\ UNCHANGED <<errored, reconnectTimeoutRef, timers, connected, manualCalls,
                   backendAccepts, storeVars, msgVars, cmdVars, viewVars>>

\* The effect's cleanup, at teardown.
Unmount ==
    /\ phase = "mounted"
    /\ phase' = "unmounted"
    /\ disconnect
    /\ UNCHANGED <<errored, connected, manualCalls, backendAccepts, storeVars,
                   msgVars, cmdVars, viewVars>>

\* reconnect: connect, as the hook returns it to the UI.
Reconnect ==
    /\ phase = "mounted"
    /\ connect("manual")
    /\ manualCalls' = IF manualCalls < MaxManual THEN manualCalls + 1 ELSE manualCalls
    /\ UNCHANGED <<phase, errored, reconnectTimeoutRef, timers, connected,
                   backendAccepts, storeVars, msgVars, cmdVars, viewVars>>

\* A pending timer runs its callback, connect.  The ref keeps the id.
TimerFire(t) ==
    /\ t \in timers
    /\ timers' = timers \ {t}
    /\ connect("timer")
    /\ UNCHANGED <<phase, errored, reconnectTimeoutRef, connected, manualCalls,
                   backendAccepts, storeVars, msgVars, cmdVars, viewVars>>

\* OnOpen with setState({ connected: true }) in place of the updater that
\* spreads prev: the rest of the state object is lost.
OnOpen_DropsState(s) ==
    /\ sockets[s] = "CONNECTING"
    /\ s \notin errored
    /\ sockets' = [sockets EXCEPT ![s] = "OPEN"]
    /\ connected' = TRUE
    /\ pheromones' = <<>> /\ portfolio' = <<>> /\ events' = <<>>
    /\ UNCHANGED <<phase, origin, errored, wsRef, reconnectTimeoutRef, timers,
                   manualCalls, backendAccepts, agentMetrics, pheromoneHistory,
                   tradeHistory, msgVars, cmdVars, viewVars>>

\* ws.onopen: the socket becomes OPEN and the handler sets connected.
OnOpen(s) ==
    /\ sockets[s] = "CONNECTING"
    /\ s \notin errored
    /\ sockets' = [sockets EXCEPT ![s] = "OPEN"]
    /\ connected' = TRUE
    /\ UNCHANGED <<phase, origin, errored, wsRef, reconnectTimeoutRef, timers,
                   manualCalls, backendAccepts, storeVars, msgVars, cmdVars, viewVars>>

\* OnError that also schedules a reconnect, as the close handler does.
OnError_SchedulesRetry(s) ==
    /\ sockets[s] \in {"CONNECTING", "OPEN"}
    /\ s \notin errored
    /\ ~backendAccepts
    /\ errored' = errored \cup {s}
    /\ IF FreeTimers = {} THEN UNCHANGED <<timers, reconnectTimeoutRef>>
       ELSE LET id == Min(FreeTimers) IN
            /\ timers' = timers \cup {[id |-> id, delay |-> ReconnectDelay]}
            /\ reconnectTimeoutRef' = id
    /\ UNCHANGED <<phase, sockets, origin, wsRef, connected, manualCalls,
                   backendAccepts, storeVars, msgVars, cmdVars, viewVars>>

\* ws.onerror: logs only.  The environment dispatches it once, when a
\* connection fails, and the close event follows.
OnError(s) ==
    /\ sockets[s] \in {"CONNECTING", "OPEN"}
    /\ s \notin errored
    /\ ~backendAccepts
    /\ errored' = errored \cup {s}
    /\ UNCHANGED <<phase, sockets, origin, wsRef, reconnectTimeoutRef, timers,
                   connected, manualCalls, backendAccepts, storeVars, msgVars,
                   cmdVars, viewVars>>

\* OnClose that gives up on an attempt that never opened: no retry for it.
OnClose_GivesUp(s) ==
    /\ sockets[s] \in {"CONNECTING", "OPEN", "CLOSING"}
    /\ sockets[s] = "CONNECTING" => s \in errored
    /\ backendAccepts => (sockets[s] = "CLOSING" \/ s \in errored)
    /\ FreeTimers # {}
    /\ IF sockets[s] = "CONNECTING"
       THEN UNCHANGED <<timers, reconnectTimeoutRef>>
       ELSE LET id == Min(FreeTimers) IN
            /\ timers' = timers \cup {[id |-> id, delay |-> ReconnectDelay]}
            /\ reconnectTimeoutRef' = id
    /\ sockets' = [sockets EXCEPT ![s] = IF s = wsRef THEN "CLOSED" ELSE "NONE"]
    /\ origin' = [origin EXCEPT ![s] = IF s = wsRef THEN @ ELSE "none"]
    /\ errored' = errored \ {s}
    /\ connected' = FALSE
    /\ UNCHANGED <<phase, wsRef, manualCalls, backendAccepts, storeVars, msgVars,
                   cmdVars, viewVars>>

\* ws.onclose: the socket becomes CLOSED, the handler clears connected and
\* schedules connect, overwriting the ref with the new timer's id.  A failed
\* attempt (CONNECTING) closes after its error event; an OPEN socket is
\* closed by the peer; a CLOSING one finishes the close() of disconnect().
OnClose(s) ==
    /\ sockets[s] \in {"CONNECTING", "OPEN", "CLOSING"}
    /\ sockets[s] = "CONNECTING" => s \in errored
    /\ backendAccepts => (sockets[s] = "CLOSING" \/ s \in errored)
    /\ FreeTimers # {}
    /\ LET id == Min(FreeTimers) IN
       /\ timers' = timers \cup {[id |-> id, delay |-> ReconnectDelay]}
       /\ reconnectTimeoutRef' = id
    /\ sockets' = [sockets EXCEPT ![s] = IF s = wsRef THEN "CLOSED" ELSE "NONE"]
    /\ origin' = [origin EXCEPT ![s] = IF s = wsRef THEN @ ELSE "none"]
    /\ errored' = errored \ {s}
    /\ connected' = FALSE
    /\ UNCHANGED <<phase, wsRef, manualCalls, backendAccepts, storeVars, msgVars,
                   cmdVars, viewVars>>

\* The backend comes back for good: from here on it accepts every connection
\* and drops none.
BackendRecovers ==
    /\ ~backendAccepts
    /\ backendAccepts' = TRUE
    /\ UNCHANGED <<phase, sockets, origin, errored, wsRef, reconnectTimeoutRef,
                   timers, connected, manualCalls, storeVars, msgVars, cmdVars, viewVars>>

\* ------------------------------------------------------ inbound frames
\* A signal status {name, intensity, threshold, is_active}; intensities and
\* thresholds are in hundredths.
Status(n, i, a) == [name |-> n, intensity |-> i, threshold |-> 50, is_active |-> a]

PheromoneLists ==
    { <<>>,
      <<Status("Price Freshness", 90, TRUE)>>,
      <<Status("Price Freshness", 10, FALSE)>>,
      <<Status("Price Freshness", 40, FALSE), Status("Rebalance Opportunity", 70, TRUE)>>,
      <<Status("Rebalance Opportunity", 20, FALSE), Status("Rebalance Opportunity", 60, TRUE)>> }

Portfolios ==
    { [total_value |-> 1000, stocks_pct |-> 60, bonds_pct |-> 40],
      [total_value |-> 1200, stocks_pct |-> 72, bonds_pct |-> 28] }

AgentLists ==
    { <<>>,
      <<[name |-> "Sensor", is_active |-> FALSE], [name |-> "Analyst", is_active |-> TRUE]>> }

TradeLists ==
    { <<>>, <<[id |-> "t1", action |-> "buy"]>>,
      <<[id |-> "t1", action |-> "buy"], [id |-> "t2", action |-> "sell"]>> }

EventTypes == {"Deposited", "Decayed"}

PheromoneFrames == {[type |-> "pheromone_update", pheromones |-> l] : l \in PheromoneLists}
PortfolioFrames == {[type |-> "portfolio_update", portfolio |-> q] : q \in Portfolios}
AgentFrames == {[type |-> "agent_metrics", agents |-> l] : l \in AgentLists}
TradeFrames == {[type |-> "trade_history", trades |-> l] : l \in TradeLists}
EventFrames ==
    {[type |-> "event", event_type |-> t, pheromone |-> "Price Freshness", intensity |-> i] :
        t \in EventTypes, i \in {30, 90}}
UnknownFrames == {[type |-> "heartbeat"]}

\* The text of a message event: JSON of one of the objects above, or text
\* that is no JSON at all.
Json(d) == [json |-> TRUE, data |-> d]
NotJson == [json |-> FALSE]
RawPheromone == {Json(d) : d \in PheromoneFrames}
RawEvent == {Json(d) : d \in EventFrames}
RawFrames ==
    {Json(d) : d \in PheromoneFrames \cup PortfolioFrames \cup AgentFrames
                     \cup TradeFrames \cup EventFrames \cup UnknownFrames}
    \cup {NotJson}

\* ------------------------------------------------------------- state store
\* history.slice(-n): the last n elements.
SliceLast(h, n) == IF Len(h) <= n THEN h ELSE SubSeq(h, Len(h) - n + 1, Len(h))

\* list.slice(0, n): the first n elements.
SliceFirst(l, n) == IF Len(l) <= n THEN l ELSE SubSeq(l, 1, n)

\* next.get(name) || []
MapGet(m, k) == IF k \in DOMAIN m THEN m[k] ELSE <<>>

\* MapSet on a fresh Map: the entries of the other names are lost.
MapSet_DropsOthers(m, k, v) == [x \in {k} |-> v]

\* next.set(name, value)
MapSet(m, k, v) == [x \in (DOMAIN m) \cup {k} |-> IF x = k THEN v ELSE m[x]]

\* TrackOne with slice(-20): one sample too many survives.
TrackOne_KeepsTwenty(next, p) ==
    MapSet(next, p.name,
           Append(SliceLast(MapGet(next, p.name), HistoryKeep + 1), p.intensity))

\* One turn of the loop: next.set(p.name, [...history.slice(-19), p.intensity])
TrackOne(next, p) ==
    MapSet(next, p.name, Append(SliceLast(MapGet(next, p.name), HistoryKeep), p.intensity))

\* The updater handed to setPheromoneHistory: a copy of the Map, then the
\* loop over data.pheromones in list order.
RECURSIVE TrackHistory(_, _)
TrackHistory(prev, list) ==
    IF list = <<>> THEN prev
    ELSE TrackHistory(TrackOne(prev, Head(list)), Tail(list))

\* NewEvent with one id for every record.
NewEvent_FixedId(data, uuid, now) ==
    [id |-> 0, type |-> data.event_type, pheromone |-> data.pheromone,
     intensity |-> data.intensity, timestamp |-> now]

\* The record the event branch builds.
NewEvent(data, uuid, now) ==
    [id |-> uuid, type |-> data.event_type, pheromone |-> data.pheromone,
     intensity |-> data.intensity, timestamp |-> now]

\* PrependEvent with the new record put last: the oldest records survive.
PrependEvent_Appends(prev, newEvent) == SliceFirst(prev \o <<newEvent>>, EventCap)

\* [newEvent, ...prev.events].slice(0, 50)
PrependEvent(prev, newEvent) == SliceFirst(<<newEvent>> \o prev, EventCap)

\* The Store as one value.
Store ==
    [pheromones |-> pheromones, portfolio |-> portfolio, events |-> events,
     agentMetrics |-> agentMetrics, pheromoneHistory |-> pheromoneHistory,
     tradeHistory |-> tradeHistory]

\* onmessage with the trade_history branch writing the agent metrics.
onmessage_WrongField(st, raw, uuid, now) ==
    IF ~raw.json THEN st
    ELSE LET data == raw.data IN
         IF data.type = "pheromone_update" THEN
             [st EXCEPT !.pheromones = data.pheromones,
                        !.pheromoneHistory = TrackHistory(@, data.pheromones)]
         ELSE IF data.type = "portfolio_update" THEN
             [st EXCEPT !.portfolio = <<data.portfolio>>]
         ELSE IF data.type = "agent_metrics" THEN
             [st EXCEPT !.agentMetrics = data.agents]
         ELSE IF data.type = "trade_history" THEN
             [st EXCEPT !.agentMetrics = data.trades]
         ELSE IF data.type = "event" THEN
             [st EXCEPT !.events = PrependEvent(@, NewEvent(data, uuid, now))]
         ELSE st

\* The pheromone list merged into the old one: entries of names the frame
\* does not list survive.
newPheromones_Merges(prev, data) ==
    data.pheromones
    \o SelectSeq(prev, LAMBDA q : \A i \in 1..Len(data.pheromones) :
                                      data.pheromones[i].name # q.name)

\* The value undefined, which reading a field the frame lacks gives.  In
\* place of a list it is written as the one-element sequence <<undefined>>.
undefined == [undefined |-> TRUE]
Field(data, f) == IF f \in DOMAIN data THEN data[f] ELSE undefined
ListField(data, f) == IF f \in DOMAIN data THEN data[f] ELSE <<undefined>>

\* pheromones: data.pheromones
newPheromones(prev, data) == ListField(data, "pheromones")

\* The pheromone_update updater without the spread of prev: the rest of the
\* state object is lost.
pheromonesUpdater_DropsPrev(st, data) ==
    [st EXCEPT !.pheromones = newPheromones(@, data),
               !.portfolio = <<>>, !.events = <<>>]

\* setState(prev => ({ ...prev, pheromones: data.pheromones }))
pheromonesUpdater(st, data) ==
    [st EXCEPT !.pheromones = newPheromones(@, data)]

\* The trade log extended by the frame's list.
newTrades_Appends(prev, data) == prev \o data.trades

\* setTradeHistory(data.trades)
newTrades(prev, data) == ListField(data, "trades")

\* setAgentMetrics(data.agents)
newAgents(prev, data) == ListField(data, "agents")

\* portfolio: data.portfolio
newPortfolio(prev, data) == <<Field(data, "portfolio")>>

\* The updater handed to setPheromoneHistory runs when React renders, after
\* onmessage has returned; `for (const p of data.pheromones)` throws there
\* when the frame has no pheromones.
updaterThrows(data) == data.type = "pheromone_update" /\ "pheromones" \notin DOMAIN data

\* The body of ws.onmessage on the Store: JSON.parse inside try, then the
\* if / else-if chain on data.type.  Text that does not parse is caught and
\* logged; a type no branch names falls through.  A render in which an
\* updater throws commits nothing.
onmessage(st, raw, uuid, now) ==
    IF ~raw.json THEN st
    ELSE LET data == raw.data IN
         IF data.type = "pheromone_update" THEN
             IF updaterThrows(data) THEN st
             ELSE [pheromonesUpdater(st, data)
                     EXCEPT !.pheromoneHistory = TrackHistory(@, data.pheromones)]
         ELSE IF data.type = "portfolio_update" THEN
             [st EXCEPT !.portfolio = newPortfolio(@, data)]
         ELSE IF data.type = "agent_metrics" THEN
             [st EXCEPT !.agentMetrics = newAgents(@, data)]
         ELSE IF data.type = "trade_history" THEN
             [st EXCEPT !.tradeHistory = newTrades(@, data)]
         ELSE IF data.type = "event" THEN
             [st EXCEPT !.events = PrependEvent(@, NewEvent(data, uuid, now))]
         ELSE st

IsEvent(raw) == raw.json /\ raw.data.type = "event"

\* JSON.parse throws on text that is no JSON.
parseThrows(raw) == ~raw.json

\* onmessageThrows with JSON.parse outside the try block.
onmessageThrows_NoTry(raw) == parseThrows(raw)

\* Whether an exception leaves ws.onmessage: JSON.parse and the whole chain
\* sit inside try, and the catch only logs.
onmessageThrows(raw) ==
    IF parseThrows(raw) THEN FALSE   \* caught and logged
    ELSE FALSE                       \* no branch throws on a well-formed frame

\* Whether the render that follows the message event throws: an exception
\* of a queued updater is outside the try of onmessage, and nothing above
\* the hook catches it.
renderThrows(raw) == raw.json /\ updaterThrows(raw.data)

\* A message event on an OPEN socket.  crypto.randomUUID() hands out an id it
\* has not handed out before; new Date() reads the clock, which has moved on
\* since the previous message.
OnMessage(s, raw) ==
    /\ sockets[s] = "OPEN"
    /\ LET uuid == uuidCount + 1
           now == clock + 1
           st == onmessage(Store, raw, uuid, now)
       IN  /\ pheromones' = st.pheromones
           /\ portfolio' = st.portfolio
           /\ events' = st.events
           /\ agentMetrics' = st.agentMetrics
           /\ pheromoneHistory' = st.pheromoneHistory
           /\ tradeHistory' = st.tradeHistory
           /\ uuidCount' = IF IsEvent(raw) THEN uuid ELSE uuidCount
           /\ clock' = now
           /\ delivered' = Append(delivered, [raw |-> raw, uuid |-> uuid, now |-> now,
                                               current |-> (s = wsRef), by |-> origin[s]])
    /\ uncaught' = (uncaught \/ onmessageThrows(raw) \/ renderThrows(raw))
    /\ UNCHANGED <<connVars, sent, calls, viewVars>>

\* -------------------------------------------------------- command channel
\* WebSocket.send: an OPEN socket takes the frame; a CONNECTING one (or a
\* null reference) throws; a CLOSING or CLOSED one discards it silently.
send(s, frame) ==
    IF s = 0 \/ sockets[s] = "CONNECTING"
    THEN uncaught' = TRUE /\ sent' = sent
    ELSE /\ uncaught' = uncaught
         /\ sent' = IF sockets[s] = "OPEN" THEN Append(sent, frame) ELSE sent

\* sendIfOpen without the readyState guard.
sendIfOpen_Unguarded(frame) == send(wsRef, frame)

\* The guard of both commands, then send(JSON.stringify(frame)).
sendIfOpen(frame) ==
    IF CurrentOpen THEN send(wsRef, frame) ELSE UNCHANGED <<sent, uncaught>>

\* setAllocation with the two percentages in each other's field.
setAllocation_Swapped(stocksPct, bondsPct) ==
    sendIfOpen([type |-> "set_allocation", stocks_pct |-> bondsPct, bonds_pct |-> stocksPct])

\* setAllocation(stocksPct, bondsPct)
setAllocation(stocksPct, bondsPct) ==
    sendIfOpen([type |-> "set_allocation", stocks_pct |-> stocksPct, bonds_pct |-> bondsPct])

\* reset()
reset == sendIfOpen([type |-> "reset"])

Allocations == {<<60, 40>>, <<80, 20>>}

SetAllocation(stocksPct, bondsPct) ==
    /\ phase = "mounted"
    /\ setAllocation(stocksPct, bondsPct)
    /\ calls' = Append(calls, [type |-> "set_allocation", stocks_pct |-> stocksPct,
                               bonds_pct |-> bondsPct, open |-> CurrentOpen])
    /\ UNCHANGED <<connVars, storeVars, msgVars, viewVars>>

Reset ==
    /\ phase = "mounted"
    /\ reset
    /\ calls' = Append(calls, [type |-> "reset", open |-> CurrentOpen])
    /\ UNCHANGED <<connVars, storeVars, msgVars, viewVars>>

\* ---------------------------------------------------------- specifications
\* The connection manager alone: every interleaving of the effect, manual
\* reconnects, timers and socket events.
NextConn ==
    \/ Mount
    \/ Unmount
    \/ Reconnect
    \/ \E t \in timers : TimerFire(t)
    \/ \E s \in SocketIds : OnOpen(s)
    \/ \E s \in SocketIds : OnError(s)
    \/ \E s \in SocketIds : OnClose(s)

SpecConn == Init /\ [][NextConn]_vars

\* The retry loop: the effect, a bounded number of manual reconnects, timers
\* and socket events, and the backend coming back; no teardown.
NextRetry ==
    \/ Mount
    \/ (manualCalls < MaxManual /\ Reconnect)
    \/ \E t \in timers : TimerFire(t)
    \/ \E s \in SocketIds : OnOpen(s)
    \/ \E s \in SocketIds : OnError(s)
    \/ \E s \in SocketIds : OnClose(s)
    \/ BackendRecovers

\* Timers run, a connection attempt is answered (accepted or refused), and a
\* refused attempt is closed.
FairRetry ==
    /\ WF_vars(Mount)
    /\ \A i \in TimerIds : WF_vars(\E t \in timers : t.id = i /\ TimerFire(t))
    /\ \A s \in SocketIds : WF_vars(OnOpen(s) \/ OnError(s))
    /\ \A s \in SocketIds : WF_vars(s \in errored /\ OnClose(s))

SpecRetry == Init /\ [][NextRetry]_vars /\ FairRetry

\* User-triggered recovery: reconnect() is called only while the client is
\* disconnected (no socket open or opening) and a retry is pending.
NextManual ==
    \/ Mount
    \/ (/\ manualCalls < MaxManual
        /\ timers # {}
        /\ \A s \in SocketIds : sockets[s] \notin {"CONNECTING", "OPEN"}
        /\ Reconnect)
    \/ \E t \in timers : TimerFire(t)
    \/ \E s \in SocketIds : OnOpen(s)
    \/ \E s \in SocketIds : OnError(s)
    \/ \E s \in SocketIds : OnClose(s)

SpecManual == Init /\ [][NextManual]_vars

\* The connection manager with data arriving: the lifecycle events with a
\* bounded number of manual reconnects, and a first frame of data on whichever socket is open; the
\* stream is silent once data is held.
LifeFrames ==
    { Json([type |-> "pheromone_update",
            pheromones |-> <<Status("Price Freshness", 90, TRUE)>>]),
      Json([type |-> "event", event_type |-> "Deposited",
            pheromone |-> "Price Freshness", intensity |-> 90]) }

NextLife ==
    \/ Mount
    \/ Unmount
    \/ (manualCalls < MaxManual /\ Reconnect)
    \/ \E t \in timers : TimerFire(t)
    \/ \E s \in SocketIds : OnOpen(s)
    \/ \E s \in SocketIds : OnError(s)
    \/ \E s \in SocketIds : OnClose(s)
    \/ (delivered = <<>>
        /\ \E s \in SocketIds, raw \in LifeFrames : OnMessage(s, raw))

SpecLife == Init /\ [][NextLife]_vars

\* Recognized frames that lack their payload field, among well-formed ones.
PayloadlessFrames ==
    {[type |-> t] : t \in {"pheromone_update", "portfolio_update", "agent_metrics",
                           "trade_history"}}

MalformedStream ==
    {Json(d) : d \in PayloadlessFrames}
    \cup {Json([type |-> "pheromone_update",
                pheromones |-> <<Status("Price Freshness", 90, TRUE)>>]),
          Json([type |-> "portfolio_update",
                portfolio |-> [total_value |-> 1000, stocks_pct |-> 60, bonds_pct |-> 40]])}

NextMalformed ==
    \/ Mount
    \/ (manualCalls < MaxManual /\ Reconnect)
    \/ \E s \in SocketIds : OnOpen(s)
    \/ (Len(delivered) < MaxFrames
        /\ \E s \in SocketIds, raw \in MalformedStream : OnMessage(s, raw))

SpecMalformed == Init /\ [][NextMalformed]_vars

\* The command channel over the retry loop.
NextCmd ==
    \/ NextRetry
    \/ (Len(calls) < MaxCalls /\ \E a \in Allocations : SetAllocation(a[1], a[2]))
    \/ (Len(calls) < MaxCalls /\ Reset)

SpecCmd == Init /\ [][NextCmd]_vars

\* The dispatcher and the Store: frames of every kind on the sockets of a
\* client that was mounted and may have been reconnected by hand.
NextStore ==
    \/ Mount
    \/ (manualCalls < MaxManual /\ Reconnect)
    \/ \E s \in SocketIds : OnOpen(s)
    \/ (Len(delivered) < MaxFrames /\ \E s \in SocketIds, raw \in RawFrames : OnMessage(s, raw))

SpecStore == Init /\ [][NextStore]_vars

\* A scripted stream: the first FreePrefix frames are free, then the stream
\* repeats them in order.
Scripted(raw) ==
    IF Len(delivered) < FreePrefix THEN TRUE
    ELSE raw = delivered[Len(delivered) - FreePrefix + 1].raw

\* Long streams of pheromone_update frames on one connection.
NextHistory ==
    \/ Mount
    \/ \E s \in SocketIds : OnOpen(s)
    \/ (Len(delivered) < MaxHistoryFrames
        /\ \E s \in SocketIds, raw \in RawPheromone : Scripted(raw) /\ OnMessage(s, raw))

SpecHistory == Init /\ [][NextHistory]_vars

\* Long streams of event frames on one connection.
NextEvents ==
    \/ Mount
    \/ \E s \in SocketIds : OnOpen(s)
    \/ (Len(delivered) < MaxEventFrames
        /\ \E s \in SocketIds, raw \in RawEvent : Scripted(raw) /\ OnMessage(s, raw))

SpecEvents == Init /\ [][NextEvents]_vars
\* ------------------------------------------------------------ derived views
\* The agents table of AgentStatus: name and the signal the agent listens to.
agents ==
    << [name |-> "Sensor", listenTo |-> "External API"],
       [name |-> "Analyst", listenTo |-> "Price Freshness"],
       [name |-> "Guardian", listenTo |-> "Rebalance Opportunity"],
       [name |-> "Trader", listenTo |-> "Execution Permit"] >>

AgentNames == {agents[i].name : i \in 1..Len(agents)}

\* Array.prototype.find on the name: the first entry with the name, if any.
find(list, name) ==
    LET idx == {i \in 1..Len(list) : list[i].name = name}
    IN  IF idx = {} THEN <<>> ELSE <<list[Min(idx)]>>

\* isActive with the entry-agent test ahead of the metric lookup.
isActive_EntryFirst(props, name, listenTo) ==
    IF listenTo = "External API" THEN TRUE
    ELSE LET metric == find(props.agentMetrics, name) IN
         IF metric # <<>> THEN metric[1].is_active
         ELSE LET pheromone == find(props.pheromones, listenTo) IN
              IF pheromone = <<>> THEN FALSE ELSE pheromone[1].is_active

\* isActive(name, listenTo) of AgentStatus, over the component's props.
isActive(props, name, listenTo) ==
    LET metric == find(props.agentMetrics, name) IN
    IF metric # <<>> THEN metric[1].is_active
    ELSE IF listenTo = "External API" THEN TRUE
    ELSE LET pheromone == find(props.pheromones, listenTo) IN
         IF pheromone = <<>> THEN FALSE ELSE pheromone[1].is_active

\* Props of AgentStatus: a status list with each upstream signal absent,
\* active or inactive, and a metric list with each agent absent, active or
\* inactive; one entry per name.
Presence == {"absent", "on", "off"}
SignalOrder == <<"Price Freshness", "Rebalance Opportunity", "Execution Permit">>
AgentOrder == <<"Sensor", "Analyst", "Guardian", "Trader">>

StatusList(c) ==
    SelectSeq([i \in 1..Len(SignalOrder) |->
                  Status(SignalOrder[i], IF c[i] = "on" THEN 80 ELSE 20, c[i] = "on")],
              LAMBDA q : \E i \in 1..Len(SignalOrder) :
                             SignalOrder[i] = q.name /\ c[i] # "absent")

MetricList(c) ==
    SelectSeq([i \in 1..Len(AgentOrder) |->
                  [name |-> AgentOrder[i], is_active |-> (c[i] = "on")]],
              LAMBDA q : \E i \in 1..Len(AgentOrder) :
                             AgentOrder[i] = q.name /\ c[i] # "absent")

AgentStatusProps ==
    {[component |-> "AgentStatus", pheromones |-> StatusList(c), agentMetrics |-> MetricList(d)] :
        c \in [1..Len(SignalOrder) -> Presence], d \in [1..Len(AgentOrder) -> Presence]}

\* One render of AgentStatus: agents.map(agent => isActive(agent.name,
\* agent.listenTo)).
RenderAgentStatus ==
    /\ args.component = "AgentStatus"
    /\ ~result.done
    /\ result' = [done |-> TRUE,
                  active |-> [i \in 1..Len(agents) |->
                                 isActive(args, agents[i].name, agents[i].listenTo)]]
    /\ UNCHANGED <<connVars, storeVars, msgVars, cmdVars, args, local>>

InitAgents == InitHook /\ args \in AgentStatusProps /\ result = NotRendered /\ local = Stateless

NextAgents == RenderAgentStatus

SpecAgents == InitAgents /\ [][NextAgents]_vars

\* Percentages are fixed-point numbers of hundredths of a percent point.
Pct(whole, hundredths) == whole * 100 + hundredths

\* Math.abs
abs(x) == IF x < 0 THEN 0 - x ELSE x

\* driftPct = Math.abs(currentStocksPct - targetStocksPct)
driftPct(currentStocksPct, targetStocksPct) == abs(currentStocksPct - targetStocksPct)

\* getSeverity with the boundaries given to the higher tier.
getSeverity_Strict(drift) ==
    IF drift < Pct(2, 0) THEN [label |-> "ALIGNED"]
    ELSE IF drift < Pct(5, 0) THEN [label |-> "MINOR DRIFT"]
    ELSE IF drift < Pct(10, 0) THEN [label |-> "MODERATE DRIFT"]
    ELSE [label |-> "CRITICAL DRIFT"]

\* getSeverity(drift) of DriftChart (the label; the colours are left out).
getSeverity(drift) ==
    IF drift <= Pct(2, 0) THEN [label |-> "ALIGNED"]
    ELSE IF drift <= Pct(5, 0) THEN [label |-> "MINOR DRIFT"]
    ELSE IF drift <= Pct(10, 0) THEN [label |-> "MODERATE DRIFT"]
    ELSE [label |-> "CRITICAL DRIFT"]

\* Props of DriftChart: four targets, and currents on both sides of each
\* target, at and next to every boundary.
DriftTargets == {Pct(40, 0), Pct(50, 0), Pct(60, 0), Pct(70, 0)}
DriftOffsets ==
    {0, Pct(0, 1), Pct(1, 99), Pct(2, 0), Pct(2, 1), Pct(4, 99), Pct(5, 0), Pct(5, 1),
     Pct(9, 99), Pct(10, 0), Pct(10, 1), Pct(25, 0)}

\* currentBondsPct is a prop of its own: the complement of the stocks share,
\* or a value one point off it.
BondsSlack == {0, Pct(1, 0)}

DriftChartProps ==
    {[component |-> "DriftChart", currentStocksPct |-> t + sign * d,
      currentBondsPct |-> Pct(100, 0) - (t + sign * d) - e, targetStocksPct |-> t] :
        t \in DriftTargets, d \in DriftOffsets, sign \in {-1, 1}, e \in BondsSlack}

\* Lengths on the gauge are whole multiples of pi / 10000 pixels.
\* radius = (size - strokeWidth) / 2
radius == (size - strokeWidth) \div 2

\* circumference = 2 * Math.PI * radius
circumference == 2 * radius * Pct(100, 0)

\* stocksArc / bondsArc = (pct / 100) * circumference
arc(pct) == pct * (circumference \div Pct(100, 0))

\* The bonds arc drawn from the top of the circle, like the stocks arc.
bondsDashoffset_Zero(stocksArc) == 0

\* strokeDashoffset={-stocksArc} of the bonds circle
bondsDashoffset(stocksArc) == 0 - stocksArc

\* The two arc circles of the gauge: strokeDasharray (dash, gap) and
\* strokeDashoffset.
gauge(props) ==
    LET stocksArc == arc(props.currentStocksPct)
        bondsArc == arc(props.currentBondsPct)
    IN  [r |-> radius,
         stocks |-> [dasharray |-> <<stocksArc, circumference - stocksArc>>,
                     dashoffset |-> 0],
         bonds |-> [dasharray |-> <<bondsArc, circumference - bondsArc>>,
                    dashoffset |-> bondsDashoffset(stocksArc)]]

\* One render of DriftChart: severity = getSeverity(driftPct) and the arcs
\* of the gauge.
RenderDriftChart ==
    /\ args.component = "DriftChart"
    /\ ~result.done
    /\ result' = [done |-> TRUE,
                  driftPct |-> driftPct(args.currentStocksPct, args.targetStocksPct),
                  severity |-> getSeverity(driftPct(args.currentStocksPct,
                                                    args.targetStocksPct)),
                  gauge |-> gauge(args)]
    /\ UNCHANGED <<connVars, storeVars, msgVars, cmdVars, args, local>>

InitSeverity == InitHook /\ args \in DriftChartProps /\ result = NotRendered /\ local = Stateless

NextSeverity == RenderDriftChart

SpecSeverity == InitSeverity /\ [][NextSeverity]_vars

\* Intensities are fixed-point numbers of hundredths; so are the y
\* coordinates.  An x coordinate is the fraction num / den.
Hundredths(n) == n * 100

\* Sparkline with y growing with the intensity.
Sparkline_NotInverted(data) ==
    IF Len(data) < 2 THEN [svg |-> FALSE]
    ELSE [svg |-> TRUE,
          points |-> [k \in 1..Len(data) |->
                         [x |-> [num |-> (k - 1) * width, den |-> Len(data) - 1],
                          y |-> (data[k] * height) \div max]]]

\* Sparkline({ data }): null for fewer than two samples, else one point per
\* sample, x = (i / (data.length - 1)) * width and
\* y = height - (v / max) * height, i counted from 0.
Sparkline(data) ==
    IF Len(data) < 2 THEN [svg |-> FALSE]
    ELSE [svg |-> TRUE,
          points |-> [k \in 1..Len(data) |->
                         [x |-> [num |-> (k - 1) * width, den |-> Len(data) - 1],
                          y |-> Hundredths(height) - (data[k] * height) \div max]]]

\* Props of Sparkline: every sequence of up to MaxPoints intensities.
Intensities == {0, 25, 50, 100}
RECURSIVE SeqsUpTo(_, _)
SeqsUpTo(S, n) ==
    IF n = 0 THEN {<<>>}
    ELSE LET shorter == SeqsUpTo(S, n - 1)
         IN  shorter \cup {Append(q, v) : q \in {r \in shorter : Len(r) = n - 1}, v \in S}

SparklineProps ==
    {[component |-> "Sparkline", data |-> d] : d \in SeqsUpTo(Intensities, MaxPoints)}

\* One render of Sparkline.
RenderSparkline ==
    /\ args.component = "Sparkline"
    /\ ~result.done
    /\ result' = [done |-> TRUE, out |-> Sparkline(args.data)]
    /\ UNCHANGED <<connVars, storeVars, msgVars, cmdVars, args, local>>

InitSparkline == InitHook /\ args \in SparklineProps /\ result = NotRendered /\ local = Stateless

NextSparkline == RenderSparkline

SpecSparkline == InitSparkline /\ [][NextSparkline]_vars

\* ---------------------------------------------------------------- EventLog
\* The filter buttons the component offers (EventLog.tsx 59).
EVENT_TYPES == <<"Deposited", "Sniffed", "Decayed">>

\* The type of a logged event is whatever string the backend sent; one type
\* without a filter button stands for the rest.
LoggedTypes == {"Deposited", "Sniffed", "Decayed", "Evaporated"}

\* toggleFilter: the updater passed to setActiveFilters.
toggleFilter(prev, type) ==
    IF type \in prev THEN prev \ {type} ELSE prev \cup {type}

\* filteredEvents that filters even when no filter is active.
filteredEvents_AlwaysFilters(props, activeFilters) ==
    SelectSeq(props.events, LAMBDA e : e.type \in activeFilters)

\* filteredEvents: all events when no filter is active, else events.filter.
filteredEvents(props, activeFilters) ==
    IF Cardinality(activeFilters) = 0
    THEN props.events
    ELSE SelectSeq(props.events, LAMBDA e : e.type \in activeFilters)

\* counts: per filter button, how many logged events have its type.
counts(props) ==
    [i \in DOMAIN EVENT_TYPES |->
        Len(SelectSeq(props.events, LAMBDA e : e.type = EVENT_TYPES[i]))]

\* What one render of EventLog shows: the list, the per-type counts, the
\* footer's "shown / total" pair and its FILTERED badge.
EventLog(props, state) ==
    LET shown == filteredEvents(props, state.activeFilters)
    IN  [done |-> TRUE,
         filteredEvents |-> shown,
         counts |-> counts(props),
         footer |-> <<Len(shown), Len(props.events)>>,
         badge |-> Cardinality(state.activeFilters) > 0]

\* A click on the filter button of a type: the state update and the render
\* it causes.
ToggleFilter(type) ==
    /\ args.component = "EventLog"
    /\ local' = [activeFilters |-> toggleFilter(local.activeFilters, type)]
    /\ result' = EventLog(args, local')
    /\ UNCHANGED <<connVars, storeVars, msgVars, cmdVars, args>>

\* The parent renders the component again with one more event at the head
\* of the log, newest first, as the Store keeps it.
LogGrows(type) ==
    /\ args.component = "EventLog"
    /\ args' = [args EXCEPT !.events =
                   <<[id |-> Len(args.events) + 1, type |-> type]>> \o @]
    /\ result' = EventLog(args', local)
    /\ UNCHANGED <<connVars, storeVars, msgVars, cmdVars, local>>

InitEventLog ==
    /\ InitHook
    /\ args = [component |-> "EventLog", events |-> <<>>]
    /\ local = [activeFilters |-> {}]
    /\ result = EventLog(args, local)

NextEventLog ==
    \/ \E i \in DOMAIN EVENT_TYPES : ToggleFilter(EVENT_TYPES[i])
    \/ (Len(args.events) < MaxLogged /\ \E type \in LoggedTypes : LogGrows(type))

SpecEventLog == InitEventLog /\ [][NextEventLog]_vars


\* ------------------------------------------------------------ ControlPanel
\* The allocation controls (controls/ControlPanel.tsx; PortfolioConfig in
\* PheromoneMonitor.tsx 124-136 has the same two handlers). Percentages are
\* counted in hundredths of a point, so that the stocksPct prop, which is the
\* portfolio's measured share, can be a value the slider cannot produce.
StocksProps == {Pct(60, 0), Pct(63, 27)}

\* <input type="range" min="0" max="100">: whole points; the ends and one
\* point that is no preset stand for the 101 positions.
SliderStops == {Pct(0, 0), Pct(37, 0), Pct(100, 0)}

\* The four preset buttons.
Presets == {Pct(80, 0), Pct(60, 0), Pct(40, 0), Pct(20, 0)}

\* handleStocksChange(value)
handleStocksChange(state, value) == [localStocks |-> value, isDirty |-> TRUE]

\* A second argument of onSetAllocation that ignores the local value.
bonds_Fixed(localStocks) == Pct(40, 0)

\* The second argument of onSetAllocation: 100 - localStocks.
bonds(localStocks) == Pct(100, 0) - localStocks

\* What one render of ControlPanel shows: the "stocks/bonds" label and
\* whether the Update Strategy button is there.
ControlPanel(props, state) ==
    [done |-> TRUE,
     label |-> <<state.localStocks, Pct(100, 0) - state.localStocks>>,
     applyShown |-> state.isDirty]

\* The slider is moved to a value, or a preset button is clicked, on the
\* mounted page.
HandleStocksChange(value) ==
    /\ args.component = "ControlPanel"
    /\ phase = "mounted"
    /\ local' = handleStocksChange(local, value)
    /\ result' = ControlPanel(args, local')
    /\ UNCHANGED <<connVars, storeVars, msgVars, cmdVars, args>>

\* A click on Update Strategy, which is rendered only while isDirty:
\* handleApply calls the hook's setAllocation and clears isDirty.
HandleApply ==
    /\ args.component = "ControlPanel"
    /\ phase = "mounted"
    /\ result.applyShown
    /\ LET stocksPct == local.localStocks
           bondsPct == bonds(local.localStocks)
       IN  /\ setAllocation(stocksPct, bondsPct)
           /\ calls' = Append(calls, [type |-> "set_allocation", stocks_pct |-> stocksPct,
                                      bonds_pct |-> bondsPct, open |-> CurrentOpen])
    /\ local' = [local EXCEPT !.isDirty = FALSE]
    /\ result' = ControlPanel(args, local')
    /\ UNCHANGED <<connVars, storeVars, msgVars, args>>

InitControls ==
    /\ InitHook
    /\ args \in {[component |-> "ControlPanel", stocksPct |-> p] : p \in StocksProps}
    /\ local = [localStocks |-> args.stocksPct, isDirty |-> FALSE]
    /\ result = ControlPanel(args, local)

\* The controls on a client whose socket opens, closes and is retried.
NextControls ==
    \/ Mount
    \/ \E t \in timers : TimerFire(t)
    \/ \E s \in SocketIds : OnOpen(s)
    \/ \E s \in SocketIds : OnClose(s)
    \/ \E value \in SliderStops \cup Presets : HandleStocksChange(value)
    \/ (Len(calls) < MaxCalls /\ HandleApply)
    \/ (Len(calls) < MaxCalls /\ Reset)

SpecControls == InitControls /\ [][NextControls]_vars

\* ------------------------------------------------------------------ claims
Live == {s \in SocketIds : sockets[s] \in {"CONNECTING", "OPEN"}}

\* The close event of socket s is handled in this step.
Closes(s) ==
    /\ sockets[s] \in {"CONNECTING", "OPEN", "CLOSING"}
    /\ sockets'[s] \in {"CLOSED", "NONE"}

\* Reconnect attempts in flight: sockets a timer or reconnect() made that
\* have not opened yet.
AttemptsInFlight ==
    {s \in SocketIds : sockets[s] = "CONNECTING" /\ origin[s] \in {"timer", "manual"}}

\* C1: whenever a connection closes the connectivity flag becomes false and
\* exactly one retry is scheduled, a step starts at most one attempt, and at
\* no point are two reconnect attempts in flight at once, for every
\* interleaving of close events, timer firings and connect()/reconnect() calls.
C1_OneAttemptInFlight ==
    /\ [][(\E s \in SocketIds : Closes(s)) =>
             /\ connected' = FALSE
             /\ Cardinality(timers') = Cardinality(timers) + 1]_vars
    /\ [][Cardinality(Live') <= Cardinality(Live) + 1]_vars
    /\ [](Cardinality(AttemptsInFlight) <= 1)

\* C2: after disconnect() no reconnect timer is pending once the close event
\* it caused has been handled, and no new connection attempt is ever made.
C2_TeardownIsFinal ==
    /\ []((phase = "unmounted" /\ \A s \in SocketIds : sockets[s] \in {"NONE", "CLOSED"})
             => timers = {})
    /\ [][phase = "unmounted" =>
             ~(\E s \in SocketIds : sockets[s] = "NONE" /\ sockets'[s] = "CONNECTING")]_vars

\* C3: at most one connection made by the client is open or being opened.
C3_AtMostOneLive == Cardinality(Live) <= 1

\* C4: connect() called while the connectivity flag is true makes no new
\* connection and changes neither the connection reference, the flag, the
\* pending timers nor the Store.
C4_ConnectIdempotent ==
    [][(connected /\ Reconnect) =>
          UNCHANGED <<sockets, wsRef, connected, timers, reconnectTimeoutRef, storeVars>>]_vars

\* C7: while the client is in use the connectivity flag is true exactly when
\* its current connection is open.
C7_FlagTracksConnection == phase = "mounted" => (connected <=> CurrentOpen)
\* The last n elements of a sequence.
LastN(seq, n) ==
    LET k == IF Len(seq) < n THEN Len(seq) ELSE n
    IN  [i \in 1..k |-> seq[Len(seq) - k + i]]

IsType(e, t) == e.raw.json /\ e.raw.data.type = t

\* The intensities a list of signal statuses gives for one name, in list order.
RECURSIVE IntensitiesOf(_, _)
IntensitiesOf(list, n) ==
    IF list = <<>> THEN <<>>
    ELSE (IF Head(list).name = n THEN <<Head(list).intensity>> ELSE <<>>)
         \o IntensitiesOf(Tail(list), n)

\* Every intensity received for a name in the first k delivered frames.
RECURSIVE ReceivedFor(_, _)
ReceivedFor(k, n) ==
    IF k = 0 THEN <<>>
    ELSE ReceivedFor(k - 1, n)
         \o (IF IsType(delivered[k], "pheromone_update")
             THEN IntensitiesOf(delivered[k].raw.data.pheromones, n)
             ELSE <<>>)

SignalNames == {"Price Freshness", "Rebalance Opportunity"}

\* C5: after any sequence of pheromone_update frames the history buffer of
\* every signal name holds at most 20 samples and equals the last min(n, 20)
\* intensities received for that name, oldest first, also when a frame lists a
\* name twice.
C5_HistoryIsLastTwenty ==
    /\ DOMAIN pheromoneHistory \subseteq SignalNames
    /\ \A n \in SignalNames :
          /\ Len(MapGet(pheromoneHistory, n)) <= 20
          /\ MapGet(pheromoneHistory, n) = LastN(ReceivedFor(Len(delivered), n), 20)

\* C5's case: more than 20 samples arrived for a name, some of them two in
\* one frame, and its buffer is full.
C5_Witness ==
    /\ Len(ReceivedFor(Len(delivered), "Rebalance Opportunity")) > 20
    /\ Len(MapGet(pheromoneHistory, "Rebalance Opportunity")) = 20
    /\ \E k \in 1..Len(delivered) :
          Len(IntensitiesOf(delivered[k].raw.data.pheromones, "Rebalance Opportunity")) = 2

\* The delivered event frames, in order of receipt.
ReceivedEvents == SelectSeq(delivered, LAMBDA e : IsType(e, "event"))

\* C6: after any sequence of event frames the event log holds at most 50
\* records, exactly the min(n, 50) most recently received, newest first.
C6_EventLogNewestFirst ==
    LET r == ReceivedEvents
        n == Len(r)
    IN  /\ Len(events) <= 50
        /\ Len(events) = (IF n < 50 THEN n ELSE 50)
        /\ \A i \in 1..Len(events) :
              /\ events[i].type = r[n - i + 1].raw.data.event_type
              /\ events[i].pheromone = r[n - i + 1].raw.data.pheromone
              /\ events[i].intensity = r[n - i + 1].raw.data.intensity
              /\ events[i].id = r[n - i + 1].uuid
              /\ events[i].timestamp = r[n - i + 1].now
        /\ \A i \in 1..(Len(events) - 1) : events[i].timestamp > events[i + 1].timestamp

\* C6's case: more than 50 events arrived and the log is full.
C6_Witness == Len(ReceivedEvents) > 50 /\ Len(events) = 50

\* C8: a command invoked while the client's connection is not open emits no
\* frame, then or later, and raises nothing: the frames sent are exactly
\* those of the calls made while the connection was open.
CommandFrame(c) ==
    IF c.type = "reset" THEN [type |-> "reset"]
    ELSE [type |-> c.type, stocks_pct |-> c.stocks_pct, bonds_pct |-> c.bonds_pct]

RECURSIVE FramesOfOpenCalls(_)
FramesOfOpenCalls(k) ==
    IF k = 0 THEN <<>>
    ELSE FramesOfOpenCalls(k - 1)
         \o (IF calls[k].open THEN <<CommandFrame(calls[k])>> ELSE <<>>)

C8_NoFrameWhenNotOpen ==
    /\ ~uncaught
    /\ sent = FramesOfOpenCalls(Len(calls))

\* C8's case: a command was dropped, the client reconnected, and a later
\* command was sent.
C8_Witness ==
    /\ \E i, j \in 1..Len(calls) : i < j /\ ~calls[i].open /\ calls[j].open
    /\ Len(sent) = 1

\* C9: every loss of connection schedules a retry with the same fixed delay,
\* however many attempts failed before; with timers and the network making
\* progress and no teardown, a closed current connection is followed by a new
\* attempt, and once the backend accepts connections the client's current
\* connection becomes open and stays open.
CurrentClosed == wsRef # 0 /\ sockets[wsRef] = "CLOSED"
CurrentConnecting == wsRef # 0 /\ sockets[wsRef] = "CONNECTING"

C9_RetriesNeverGiveUp ==
    /\ [][\A s \in SocketIds : Closes(s) =>
             \E r \in timers' \ timers : r.delay = ReconnectDelay]_vars
    /\ [](\A r \in timers : r.delay = ReconnectDelay)
    /\ (CurrentClosed ~> CurrentConnecting)
    /\ (backendAccepts ~> []CurrentOpen)

\* C9's case: an attempt a retry timer made has itself failed and the next
\* retry is scheduled.
C9_Witness ==
    /\ CurrentClosed
    /\ origin[wsRef] = "timer"
    /\ timers # {}

\* The mutation the Store defines for each discriminant.
EmptyStore ==
    [pheromones |-> <<>>, portfolio |-> <<>>, events |-> <<>>, agentMetrics |-> <<>>,
     pheromoneHistory |-> <<>>, tradeHistory |-> <<>>]

NamesIn(list) == {list[i].name : i \in 1..Len(list)}

Mutation(st, e) ==
    LET d == e.raw.data IN
    CASE d.type = "pheromone_update" ->
            [st EXCEPT !.pheromones = d.pheromones,
                       !.pheromoneHistory =
                           [n \in (DOMAIN @) \cup NamesIn(d.pheromones) |->
                               LastN(MapGet(@, n) \o IntensitiesOf(d.pheromones, n), 20)]]
      [] d.type = "portfolio_update" -> [st EXCEPT !.portfolio = <<d.portfolio>>]
      [] d.type = "agent_metrics" -> [st EXCEPT !.agentMetrics = d.agents]
      [] d.type = "trade_history" -> [st EXCEPT !.tradeHistory = d.trades]
      [] d.type = "event" ->
            [st EXCEPT !.events =
                LET all == <<[id |-> e.uuid, type |-> d.event_type,
                              pheromone |-> d.pheromone, intensity |-> d.intensity,
                              timestamp |-> e.now]>> \o @
                IN  IF Len(all) > 50 THEN SubSeq(all, 1, 50) ELSE all]
      [] OTHER -> st

Recognized(e) ==
    e.raw.json /\ e.raw.data.type \in {"pheromone_update", "portfolio_update",
                                       "agent_metrics", "trade_history", "event"}

\* The left fold of the mutations over the first k delivered frames.
RECURSIVE FoldStore(_)
FoldStore(k) ==
    IF k = 0 THEN EmptyStore
    ELSE IF Recognized(delivered[k]) THEN Mutation(FoldStore(k - 1), delivered[k])
    ELSE FoldStore(k - 1)

\* C10: the Store equals the left fold of the per-discriminant mutations over
\* the recognized frames in the order they were delivered, each applied once.
C10_StoreIsFoldOfFrames == Store = FoldStore(Len(delivered))

\* C10's case: two recognized frames of one discriminant with different
\* payloads arrived, so the order of application shows in the Store.
C10_Witness ==
    \E i, j \in 1..Len(delivered) :
        /\ i < j
        /\ Recognized(delivered[i]) /\ Recognized(delivered[j])
        /\ delivered[i].raw.data.type = delivered[j].raw.data.type
        /\ delivered[i].raw # delivered[j].raw
        /\ Mutation(Mutation(EmptyStore, delivered[i]), delivered[j])
              # Mutation(Mutation(EmptyStore, delivered[j]), delivered[i])

\* The step delivers a frame: it appends an entry to the frames delivered so
\* far.  NewFrame is that entry.
Delivers == Len(delivered') = Len(delivered) + 1
NewFrame == delivered'[Len(delivered')]

LastDelivered == delivered[Len(delivered)]

\* C11: a frame whose text does not decode, or whose discriminant no branch
\* names, is ignored: no uncaught error, the Store, the connection and the
\* connected flag unchanged (later frames are then applied as usual, C10).
C11_BadFrameIgnored ==
    [][(Delivers /\ ~Recognized(NewFrame)) =>
              /\ UNCHANGED <<storeVars, connVars, sent>>
              /\ uncaught' = uncaught
              /\ ~uncaught']_vars

\* C11's case: text that is no JSON was delivered and ignored, and a
\* recognized frame after it took effect.
C11_Witness ==
    /\ Len(delivered) >= 2
    /\ ~delivered[Len(delivered) - 1].raw.json
    /\ Recognized(LastDelivered)
    /\ Store # EmptyStore
    /\ ~uncaught

\* The Store fields the branch of a discriminant writes.
OwnFields(t) ==
    CASE t = "pheromone_update" -> {"pheromones", "pheromoneHistory"}
      [] t = "portfolio_update" -> {"portfolio"}
      [] t = "agent_metrics" -> {"agentMetrics"}
      [] t = "trade_history" -> {"tradeHistory"}
      [] t = "event" -> {"events"}

\* C12: a recognized frame changes only the Store field(s) of its own
\* discriminant; every other field and the connected flag keep their value.
C12_OnlyOwnField ==
    [][(Delivers /\ Recognized(NewFrame)) =>
              /\ \A f \in (DOMAIN Store) \ OwnFields(NewFrame.raw.data.type) :
                     Store'[f] = Store[f]
              /\ connected' = connected]_vars

\* C12's case: a status frame was applied to a Store that already held a
\* portfolio, and the portfolio is still there.
C12_Witness ==
    /\ Len(delivered) >= 2
    /\ IsType(LastDelivered, "pheromone_update")
    /\ LastDelivered.raw.data.pheromones # <<>>
    /\ \E k \in 1..(Len(delivered) - 1) : IsType(delivered[k], "portfolio_update")
    /\ portfolio # <<>>

\* The delivered frames of one discriminant, in order.
FramesOfType(t) == SelectSeq(delivered, LAMBDA e : IsType(e, t))

\* The payload field f of the last delivered frame of discriminant t, or
\* none when no such frame arrived.
LastPayload(t, f, none) ==
    LET fs == FramesOfType(t)
    IN  IF fs = <<>> THEN none ELSE fs[Len(fs)].raw.data[f]

\* C13: a pheromone_update frame replaces the status collection wholesale:
\* the collection is the list of the latest such frame, so a signal the
\* frame does not list is gone.
C13_StatusReplaced == pheromones = LastPayload("pheromone_update", "pheromones", <<>>)

\* C13's case: a status frame listing a signal was followed by one that
\* does not list it.
C13_Witness ==
    LET fs == FramesOfType("pheromone_update") IN
    /\ Len(fs) >= 2
    /\ NamesIn(fs[Len(fs) - 1].raw.data.pheromones)
          \ NamesIn(fs[Len(fs)].raw.data.pheromones) # {}
    /\ fs[Len(fs)].raw.data.pheromones # <<>>

\* C14: portfolio_update, agent_metrics and trade_history frames replace
\* their field wholesale; a shorter trade list shrinks the log.
C14_FieldsReplaced ==
    /\ portfolio = (LET fs == FramesOfType("portfolio_update")
                    IN  IF fs = <<>> THEN <<>> ELSE <<fs[Len(fs)].raw.data.portfolio>>)
    /\ agentMetrics = LastPayload("agent_metrics", "agents", <<>>)
    /\ tradeHistory = LastPayload("trade_history", "trades", <<>>)

\* C14's case: a trade list of two entries was followed by a shorter one.
C14_Witness ==
    LET fs == FramesOfType("trade_history") IN
    /\ Len(fs) >= 2
    /\ Len(fs[Len(fs) - 1].raw.data.trades) = 2
    /\ Len(fs[Len(fs)].raw.data.trades) = 1
    /\ Len(tradeHistory) = 1

IdsOf(log) == {log[i].id : i \in 1..Len(log)}

\* C15: each event frame adds exactly one record at the head of the event
\* log, with the frame's event_type, pheromone and intensity and an id no
\* record of the log has; the ids in the log are always pairwise distinct.
C15_OneFreshRecordPerEvent ==
    /\ [](\A i, j \in 1..Len(events) : events[i].id = events[j].id => i = j)
    /\ [][(Delivers /\ IsType(NewFrame, "event")) =>
              LET d == NewFrame.raw.data IN
              /\ Len(events') = Min({Len(events) + 1, EventCap})
              /\ Head(events').type = d.event_type
              /\ Head(events').pheromone = d.pheromone
              /\ Head(events').intensity = d.intensity
              /\ Head(events').id \notin IdsOf(events)
              /\ Tail(events') = SubSeq(events, 1, Len(events') - 1)]_vars

\* C15's case: two event frames with the same content were delivered one
\* after the other and the log holds a record for each.
C15_Witness ==
    /\ Len(events) >= 2
    /\ Len(delivered) >= 2
    /\ LastDelivered.raw = delivered[Len(delivered) - 1].raw
    /\ events[1].id # events[2].id
    /\ events[1].intensity = events[2].intensity

\* The step is a command call; NewCall is the call.
Calls == Len(calls') = Len(calls) + 1
NewCall == calls'[Len(calls')]

\* C16: while the connection is open, set_allocation(s, b) emits exactly one
\* frame {type: set_allocation, stocks_pct: s, bonds_pct: b} and reset()
\* exactly one frame {type: reset} with no other field; neither call changes
\* a Store field, the connected flag or the reconnect timer.
C16_FireAndForget ==
    [][Calls =>
          /\ NewCall.open =>
                /\ NewCall.type = "set_allocation" =>
                      sent' = Append(sent, [type |-> "set_allocation",
                                            stocks_pct |-> NewCall.stocks_pct,
                                            bonds_pct |-> NewCall.bonds_pct])
                /\ NewCall.type = "reset" =>
                      /\ sent' = Append(sent, [type |-> "reset"])
                      /\ DOMAIN sent'[Len(sent')] = {"type"}
          /\ UNCHANGED <<storeVars, connected, timers, reconnectTimeoutRef, uncaught>>]_vars

\* C16's case: both commands were called on an open connection, with two
\* different percentages, and a frame went out for each.
C16_Witness ==
    /\ Len(sent) = 2
    /\ \E i, j \in 1..2 :
          /\ sent[i].type = "reset"
          /\ sent[j].type = "set_allocation"
          /\ sent[j].stocks_pct # sent[j].bonds_pct

\* The error event of socket s is handled in this step.
Errors(s) == s \notin errored /\ s \in errored'

\* C17: an error event is only logged: it raises nothing and neither
\* schedules nor cancels a reconnect timer; the retry after an error is the
\* one fixed-delay retry the close event that follows it schedules.
C17_ErrorOnlyLogged ==
    [][\A s \in SocketIds :
          /\ Errors(s) =>
                UNCHANGED <<timers, reconnectTimeoutRef, connected, sockets, wsRef,
                            uncaught, storeVars>>
          /\ (s \in errored /\ Closes(s)) =>
                /\ timers \subseteq timers'
                /\ Cardinality(timers' \ timers) = 1
                /\ \A t \in timers' \ timers : t.delay = 2000 /\ reconnectTimeoutRef' = t.id]_vars

\* C17's case: one failed attempt has had its error and its close and left
\* its one retry pending, and another attempt has had its error and not yet
\* its close.
C17_Witness ==
    /\ \E s \in errored : sockets[s] = "CONNECTING"
    /\ Cardinality(timers) = 1
    /\ ~connected
    /\ ~uncaught

Entries(list, name) == {list[i] : i \in {j \in 1..Len(list) : list[j].name = name}}

\* C18: agent activity is resolved per agent: a metric entry with the
\* agent's name decides (also for the entry agent, also against the upstream
\* signal); without one the entry agent is active and any other agent is
\* active iff a signal with the name it listens to exists and is active.
\* With no metrics and 'Price Freshness' inactive, the agent listening to it
\* is inactive and the entry agent active.
C18_ActivityPerAgent ==
    (args.component = "AgentStatus" /\ result.done) =>
        /\ \A i \in 1..Len(agents) :
              LET ms == Entries(args.agentMetrics, agents[i].name)
                  ss == Entries(args.pheromones, agents[i].listenTo)
              IN  IF ms # {} THEN \A m \in ms : result.active[i] = m.is_active
                  ELSE IF agents[i].name = "Sensor" THEN result.active[i]
                  ELSE result.active[i] = (\E q \in ss : q.is_active)
        /\ (/\ args.agentMetrics = <<>>
            /\ \E q \in Entries(args.pheromones, "Price Freshness") : ~q.is_active)
              => (result.active[1] /\ ~result.active[2])

\* C18's case: one render in which the metrics switch the entry agent off
\* and hold the Analyst on against an inactive 'Price Freshness', while the
\* Guardian and the Trader, without metrics, follow their signals: one
\* missing, one active.
C18_Witness ==
    /\ args.component = "AgentStatus" /\ result.done
    /\ Entries(args.agentMetrics, "Guardian") = {}
    /\ Entries(args.agentMetrics, "Trader") = {}
    /\ Entries(args.pheromones, "Rebalance Opportunity") = {}
    /\ \E q \in Entries(args.pheromones, "Price Freshness") : ~q.is_active
    /\ result.active = <<FALSE, TRUE, FALSE, TRUE>>

\* The tier of section "drift classification" for a signed difference
\* current - target, in hundredths.
Tier(diff) ==
    IF -200 <= diff /\ diff <= 200 THEN "ALIGNED"
    ELSE IF -500 <= diff /\ diff <= 500 THEN "MINOR DRIFT"
    ELSE IF -1000 <= diff /\ diff <= 1000 THEN "MODERATE DRIFT"
    ELSE "CRITICAL DRIFT"

BoundaryTable ==
    { <<0, "ALIGNED">>, <<200, "ALIGNED">>, <<201, "MINOR DRIFT">>, <<500, "MINOR DRIFT">>,
      <<501, "MODERATE DRIFT">>, <<1000, "MODERATE DRIFT">>, <<1001, "CRITICAL DRIFT">> }

\* C19: with drift = |current - target| the tier is Aligned for drift <= 2,
\* Minor for 2 < drift <= 5, Moderate for 5 < drift <= 10 and Critical above;
\* 0, 2, 2.01, 5, 5.01, 10, 10.01 give Aligned, Aligned, Minor, Minor,
\* Moderate, Moderate, Critical, whichever of current and target is larger.
C19_SeverityTiers ==
    (args.component = "DriftChart" /\ result.done) =>
        LET diff == args.currentStocksPct - args.targetStocksPct IN
        /\ result.severity.label = Tier(diff)
        /\ result.severity.label = Tier(0 - diff)
        /\ \A row \in BoundaryTable :
              (diff = row[1] \/ diff = 0 - row[1]) => result.severity.label = row[2]

\* C19's case: the current share is below the target by exactly 2 points,
\* and the chart says aligned.
C19_Witness ==
    /\ args.component = "DriftChart" /\ result.done
    /\ args.targetStocksPct - args.currentStocksPct = 200
    /\ result.severity.label = "ALIGNED"

\* Fractions a and b compared by cross-multiplication (denominators positive).
FracLess(a, b) == a.num * b.den < b.num * a.den
FracIs(a, whole) == a.num = whole * a.den

\* C20: fewer than 2 points produce nothing; for n >= 2 points, point i has
\* x = i/(n-1) * width (first at 0, last at width, strictly increasing) and
\* y = height - intensity * height, so a higher intensity gives a smaller y
\* (0 maps to height, 1 to 0), one point per sample in input order.
C20_SparklineGeometry ==
    (args.component = "Sparkline" /\ result.done) =>
        LET n == Len(args.data)
            out == result.out
        IN  IF n < 2 THEN ~out.svg
            ELSE /\ out.svg
                 /\ Len(out.points) = n
                 /\ FracIs(out.points[1].x, 0)
                 /\ FracIs(out.points[n].x, 100)
                 /\ \A k \in 1..n :
                       /\ out.points[k].x.num * (n - 1) = (k - 1) * 100 * out.points[k].x.den
                       /\ out.points[k].y = 3200 - args.data[k] * 32
                       /\ args.data[k] = 0 => out.points[k].y = 3200
                       /\ args.data[k] = 100 => out.points[k].y = 0
                 /\ \A k \in 1..(n - 1) : FracLess(out.points[k].x, out.points[k + 1].x)
                 /\ \A j, k \in 1..n :
                       args.data[j] > args.data[k] => out.points[j].y < out.points[k].y

\* C20's case: three samples, the lowest and the highest intensity among
\* them, drawn as three points.
C20_Witness ==
    /\ args.component = "Sparkline" /\ result.done
    /\ args.data = <<0, 100, 25>>
    /\ result.out.svg
    /\ Len(result.out.points) = 3

\* Where a dashed circle's first dash begins and ends along the path: a
\* negative dash offset moves the pattern forward by that much.
ArcStart(c) == 0 - c.dashoffset
ArcEnd(c) == ArcStart(c) + c.dasharray[1]

\* C21: the stocks arc is stocks_pct/100 of the circumference and the bonds
\* arc bonds_pct/100 of it; the bonds arc starts exactly where the stocks
\* arc ends, and when stocks_pct + bonds_pct = 100 the two arcs together
\* cover exactly the full circumference without overlap.
C21_ArcsContiguous ==
    (args.component = "DriftChart" /\ result.done) =>
        LET g == result.gauge
            full == 2 * g.r * 10000
            onePct == full \div 100
        IN  /\ g.stocks.dasharray[1] * 100 = args.currentStocksPct * onePct
            /\ g.bonds.dasharray[1] * 100 = args.currentBondsPct * onePct
            /\ g.stocks.dasharray[1] + g.stocks.dasharray[2] = full
            /\ g.bonds.dasharray[1] + g.bonds.dasharray[2] = full
            /\ ArcStart(g.stocks) = 0
            /\ ArcStart(g.bonds) = ArcEnd(g.stocks)
            /\ (args.currentStocksPct + args.currentBondsPct = 10000)
                  => ArcEnd(g.bonds) = full

\* C21's case: a gauge drawn for 62 % stocks and 38 % bonds.
C21_Witness ==
    /\ args.component = "DriftChart" /\ result.done
    /\ args.currentStocksPct = 6200 /\ args.currentBondsPct = 3800
    /\ ArcEnd(result.gauge.stocks) > 0
    /\ ArcEnd(result.gauge.bonds) > ArcStart(result.gauge.bonds)

\* C22: only frames delivered by the client's current connection are
\* applied to the Store: a frame a superseded connection still delivers
\* never changes it.
C22_OnlyCurrentFeedsStore ==
    [][(Delivers /\ ~NewFrame.current) => UNCHANGED storeVars]_vars

\* The timer t runs in this step.
Fires(t) == t \in timers /\ t \notin timers' /\ phase' = phase

\* The step makes a new connection.
MakesConnection ==
    \E s \in SocketIds : sockets[s] # "CONNECTING" /\ sockets'[s] = "CONNECTING"

\* The current connection was started by reconnect() and is connecting or
\* open.  When reconnect() is only called with nothing live, every timer
\* pending in such a state was pending when reconnect() was called.
ManualAttemptLive ==
    /\ wsRef # 0 /\ origin[wsRef] = "manual"
    /\ sockets[wsRef] \in {"CONNECTING", "OPEN"}

\* C23: reconnect() while disconnected is an immediate connect() without a
\* duplicate: a retry that was pending when reconnect() was called makes no
\* further connection when it fires, whether the manually started attempt
\* is still connecting or already open.
C23_ManualReconnectNoDuplicate ==
    [][\A t \in timers :
          (Fires(t) /\ ManualAttemptLive) => (~MakesConnection /\ wsRef' = wsRef)]_vars

\* C24: history buffers are independent across names: a pheromone_update
\* frame appends to the buffers of the names it lists and leaves the buffer
\* of every other name as it is, and a name once in the history stays there
\* even when the status collection no longer lists it.
C24_BuffersIndependent ==
    /\ [][(Delivers /\ IsType(NewFrame, "pheromone_update")) =>
              \A n \in SignalNames \cup DOMAIN pheromoneHistory :
                  LET add == IntensitiesOf(NewFrame.raw.data.pheromones, n) IN
                  IF add = <<>>
                  THEN /\ (n \in DOMAIN pheromoneHistory') = (n \in DOMAIN pheromoneHistory)
                       /\ MapGet(pheromoneHistory', n) = MapGet(pheromoneHistory, n)
                  ELSE MapGet(pheromoneHistory', n)
                          = LastN(MapGet(pheromoneHistory, n) \o add, 20)]_vars
    /\ [][DOMAIN pheromoneHistory \subseteq DOMAIN pheromoneHistory']_vars

\* C24's case: a signal with samples in its buffer is missing from the
\* latest status list, which lists another signal.
C24_Witness ==
    /\ pheromones # <<>>
    /\ \E n \in DOMAIN pheromoneHistory :
          /\ n \notin NamesIn(pheromones)
          /\ pheromoneHistory[n] # <<>>

\* C25: connection lifecycle events never touch Store data: every step that
\* is not the delivery of a frame (open, close, error, timer, connect,
\* reconnect, disconnect) leaves statuses, portfolio, agent metrics, trade
\* log, event log and history buffers unchanged.
C25_LifecycleKeepsStore ==
    [][(delivered' = delivered) => UNCHANGED storeVars]_vars

\* C25's case: data arrived on the first connection, that connection was
\* lost, the retry timer has made a new connection that opened, and the
\* data is still held.
C25_Witness ==
    /\ pheromones # <<>>
    /\ wsRef # 0 /\ origin[wsRef] = "timer" /\ sockets[wsRef] = "OPEN"
    /\ \A k \in 1..Len(delivered) : delivered[k].by = "effect"
    /\ \A s \in SocketIds : origin[s] = "effect" => sockets[s] \notin {"CONNECTING", "OPEN"}
    /\ connected

\* C26: at most one reconnect timer is pending, and it is the one the timer
\* reference names, the one disconnect() cancels; no close event schedules
\* a timer over a reference to an earlier timer that is still pending.
C26_OneTimerInRef ==
    /\ Cardinality(timers) <= 1
    /\ \A t \in timers : t.id = reconnectTimeoutRef

\* The frame has a recognized type and no payload field.
Payloadless(e) ==
    /\ e.raw.json
    /\ \/ e.raw.data.type = "pheromone_update" /\ "pheromones" \notin DOMAIN e.raw.data
       \/ e.raw.data.type = "portfolio_update" /\ "portfolio" \notin DOMAIN e.raw.data
       \/ e.raw.data.type = "agent_metrics" /\ "agents" \notin DOMAIN e.raw.data
       \/ e.raw.data.type = "trade_history" /\ "trades" \notin DOMAIN e.raw.data

\* C27: a frame of a recognized type that lacks its payload field is
\* treated as malformed: it is dropped, leaving every Store field unchanged
\* and raising nothing.
C27_PayloadlessIgnored ==
    [][(Delivers /\ Payloadless(NewFrame)) =>
          (UNCHANGED storeVars /\ uncaught' = uncaught)]_vars

\* The events of a log whose type is in a set, in the order of the log.
RECURSIVE Keep(_, _)
Keep(log, types) ==
    IF log = <<>> THEN <<>>
    ELSE (IF Head(log).type \in types THEN <<Head(log)>> ELSE <<>>)
         \o Keep(Tail(log), types)

\* C28: with no filter active the displayed list is the whole event log,
\* otherwise it is exactly the log's events whose type is in the filter set,
\* in log order; toggling a type twice gives the filter set back; the footer
\* pair is (displayed length, log length) and the first never exceeds the
\* second.
C28_FilteredView ==
    args.component = "EventLog" =>
        LET log == args.events
            shown == result.filteredEvents
            active == local.activeFilters
        IN  /\ (active = {} => shown = log)
            /\ (active # {} => shown = Keep(log, active))
            /\ \A i \in DOMAIN EVENT_TYPES :
                   toggleFilter(toggleFilter(active, EVENT_TYPES[i]), EVENT_TYPES[i])
                       = active
            /\ result.footer = <<Len(shown), Len(log)>>
            /\ Len(shown) <= Len(log)

\* A filter is active and hides part of a log it also shows part of.
C28_Witness ==
    /\ args.component = "EventLog"
    /\ local.activeFilters = {"Deposited", "Decayed"}
    /\ Len(args.events) = 3
    /\ Len(result.filteredEvents) = 2
    /\ result.filteredEvents[1].type = "Decayed"
    /\ result.filteredEvents[2].type = "Deposited"

\* The set_allocation invocations the controls have made.
Intents == {i \in DOMAIN calls : calls[i].type = "set_allocation"}

\* C29: every set_allocation intent of the allocation controls has
\* bonds = 100 - stocks, with stocks a whole number of points in [0,100]
\* that the slider or a preset can give; so the two add up to 100 and both
\* lie in [0,100], whatever the sequence of slider moves, presets and applies.
C29_AllocationSumsTo100 ==
    \A i \in Intents :
        LET stocks == calls[i].stocks_pct
            bondsPct == calls[i].bonds_pct
        IN  /\ bondsPct = Pct(100, 0) - stocks
            /\ stocks % Pct(1, 0) = 0
            /\ stocks \in SliderStops \cup Presets
            /\ stocks + bondsPct = Pct(100, 0)
            /\ stocks >= 0 /\ stocks <= Pct(100, 0)
            /\ bondsPct >= 0 /\ bondsPct <= Pct(100, 0)

\* The controls were mounted on a share the slider cannot give, and have
\* applied a slider value and then a preset.
C29_Witness ==
    /\ args.component = "ControlPanel"
    /\ args.stocksPct = Pct(63, 27)
    /\ Len(calls) = 2
    /\ calls[1].type = "set_allocation" /\ calls[1].stocks_pct = Pct(37, 0)
    /\ calls[2].type = "set_allocation" /\ calls[2].stocks_pct = Pct(80, 0)
    /\ calls[2].bonds_pct = Pct(20, 0)

\* This step is a click on Update Strategy.
Applies ==
    /\ Len(calls') = Len(calls) + 1
    /\ calls'[Len(calls')].type = "set_allocation"

\* This step moves the slider or clicks a preset.
ChangesStocks == local' # local /\ calls' = calls

\* C30: the dirty flag is set by every change of the local stocks value and
\* by nothing else; an apply invokes set-allocation once with the local
\* value, and clears the flag only if the frame was actually sent, so that a
\* change applied while disconnected stays pending.
C30_DirtyUntilSent ==
    [][args.component = "ControlPanel" =>
          /\ (ChangesStocks => local'.isDirty)
          /\ (Applies =>
                /\ calls'[Len(calls')].stocks_pct = local.localStocks
                /\ local'.localStocks = local.localStocks
                /\ (local'.isDirty = FALSE <=> Len(sent') = Len(sent) + 1))
          /\ (~ChangesStocks /\ ~Applies => local' = local)]_vars

====
